---- MODULE Spec2Model ----
(***************************************************************************)
(* Model of shopifyreview.py: the three field extractors, detail_scrap and *)
(* the pagination driver main().  Python strings are sequences of          *)
(* one-character strings, so that strip(), split(), capitalize() and the   *)
(* \d+ search are computed as the code computes them.                      *)
(***************************************************************************)
EXTENDS Integers, Sequences, FiniteSets, TLC

VARIABLES app_idx, page_num, pc, data, combined_data, trace, soup

vars == <<app_idx, page_num, pc, data, combined_data, trace, soup>>

(* ---------------------------- bounds ----------------------------------- *)
NumSources == 2
MaxPage == 3
MaxLabelLen == 3
MaxContainers == 2

(* ---------------------------- strings ---------------------------------- *)
Unknown == <<"U", "n", "k", "n", "o", "w", "n">>

Digits == {"0", "1", "2", "3", "4", "5", "6", "7", "8", "9"}

Whitespace == {" ", "\n", "\t"}

LowerCase == <<"a", "b", "c", "d", "e", "f", "g", "h", "i", "j", "k", "l", "m",
               "n", "o", "p", "q", "r", "s", "t", "u", "v", "w", "x", "y", "z">>

UpperCase == <<"A", "B", "C", "D", "E", "F", "G", "H", "I", "J", "K", "L", "M",
               "N", "O", "P", "Q", "R", "S", "T", "U", "V", "W", "X", "Y", "Z">>

Range(s) == {s[i] : i \in 1..Len(s)}

Min(a, b) == IF a <= b THEN a ELSE b

upper(c) ==
  IF \E i \in 1..26 : LowerCase[i] = c
  THEN UpperCase[CHOOSE i \in 1..26 : LowerCase[i] = c]
  ELSE c

lower(c) ==
  IF \E i \in 1..26 : UpperCase[i] = c
  THEN LowerCase[CHOOSE i \in 1..26 : UpperCase[i] = c]
  ELSE c

(* str.strip(): drop leading and trailing whitespace *)
RECURSIVE lstrip(_)
lstrip(s) ==
  IF s # <<>> /\ Head(s) \in Whitespace THEN lstrip(Tail(s)) ELSE s

RECURSIVE rstrip(_)
rstrip(s) ==
  IF s # <<>> /\ s[Len(s)] \in Whitespace
  THEN rstrip(SubSeq(s, 1, Len(s) - 1))
  ELSE s

strip(s) == rstrip(lstrip(s))

(* str.capitalize(): first character upper-cased, the rest lower-cased *)
capitalize(w) ==
  [i \in 1..Len(w) |-> IF i = 1 THEN upper(w[i]) ELSE lower(w[i])]

(* the part of s before the first sep *)
RECURSIVE before_sep(_, _)
before_sep(s, sep) ==
  IF s = <<>> THEN <<>>
  ELSE IF Head(s) = sep THEN <<>>
  ELSE <<Head(s)>> \o before_sep(Tail(s), sep)

(* str.split(sep) for a one-character separator *)
RECURSIVE split(_, _)
split(s, sep) ==
  IF sep \in Range(s)
  THEN <<before_sep(s, sep)>>
       \o split(SubSeq(s, Len(before_sep(s, sep)) + 2, Len(s)), sep)
  ELSE <<s>>

(* sep.join(words) *)
RECURSIVE join(_, _)
join(sep, words) ==
  IF words = <<>> THEN <<>>
  ELSE IF Len(words) = 1 THEN words[1]
  ELSE words[1] \o sep \o join(sep, Tail(words))

(* re.search(r'\d+', text): leftmost match, greedy.  found = FALSE is None *)
RECURSIVE digit_run(_)
digit_run(s) ==
  IF s # <<>> /\ Head(s) \in Digits
  THEN <<Head(s)>> \o digit_run(Tail(s))
  ELSE <<>>

(* mutant: every digit of the text instead of the first run *)
RECURSIVE re_findall_digits(_)
re_findall_digits(text) ==
  IF text = <<>> THEN [found |-> FALSE, group |-> <<>>]
  ELSE LET rest == re_findall_digits(Tail(text))
       IN IF Head(text) \in Digits
          THEN [found |-> TRUE, group |-> <<Head(text)>> \o rest.group]
          ELSE rest

RECURSIVE re_search_digits(_)
re_search_digits(text) ==
  IF text = <<>> THEN [found |-> FALSE, group |-> <<>>]
  ELSE IF Head(text) \in Digits
       THEN [found |-> TRUE, group |-> digit_run(text)]
       ELSE re_search_digits(Tail(text))

(* ---------------------------- sources ---------------------------------- *)
(* base_url: each entry is host prefix + slug + "/reviews?search_id=..&page=" *)
base_url == <<
  [slug |-> <<"g","o","o","g","l","e","-","c","u","s","t","o","m","e","r","-",
              "r","e","v","i","e","w","s","-","1">>],
  [slug |-> <<"s","o","c","i","a","l","-","t","e","s","t","i","m","o","n","i",
              "a","l","-","s","l","i","d","e","r">>],
  [slug |-> <<"r","e","p","u","t","o","n","-","t","e","s","t","i","m","o","n",
              "i","a","l","s">>],
  [slug |-> <<"p","r","o","d","u","c","t","-","r","e","v","i","e","w","s","-",
              "b","y","-","a","p","p","i","o">>],
  [slug |-> <<"r","e","v","i","e">>] >>

(* the first NumSources configured sources are modelled *)
Sources == 1..NumSources

(* mutant: the words are joined as they are, not capitalized *)
app_name_raw(app_url) == join(<<" ">>, split(app_url.slug, "-"))

(* line 128: the list comprehension *)
capitalize_all(words) == [i \in 1..Len(words) |-> capitalize(words[i])]

(* lines 127-128 *)
app_name_of(app_url) == join(<<" ">>, capitalize_all(split(app_url.slug, "-")))

(* app_name of every configured source: lines 127-128 depend on app_url only *)
app_name == [i \in 1..Len(base_url) |-> app_name_of(base_url[i])]

(* ---------------------------- parsed pages ----------------------------- *)
(* A soup is what BeautifulSoup hands to the extractors:                   *)
(*   main     "absent" | "raises" | "present" (the main container)         *)
(*   titles   the title nodes under the container, each with its text and  *)
(*            the texts of the siblings that follow it                     *)
(*   content_raises, content_elements   the content blocks                 *)
(*   rate_raises, rate_containers       the rating containers, each with   *)
(*            an optional widget, an optional aria-label and an optional   *)
(*            date node                                                    *)

None == [none |-> TRUE, list |-> <<>>]

Some(l) == [none |-> FALSE, list |-> l]

(* lines 25-36: one IdentityRecord per title node *)
identity_of(review_element) ==
  LET sibs == review_element.siblings
  IN [Store |-> strip(review_element.text),
      Location |-> IF Len(sibs) >= 1 THEN strip(sibs[1]) ELSE Unknown,
      Span |-> IF Len(sibs) >= 2 THEN strip(sibs[2]) ELSE Unknown]

(* lines 9-44 *)
extract_reviews(sp) ==
  IF sp.main = "raises" THEN None
  ELSE IF sp.main = "present"
       THEN Some([i \in 1..Len(sp.titles) |-> identity_of(sp.titles[i])])
       ELSE None

(* lines 47-58 *)
extract_content(sp) ==
  IF sp.content_raises THEN <<>>
  ELSE [i \in 1..Len(sp.content_elements) |-> strip(sp.content_elements[i])]

(* lines 70-81: one RatingRecord per rating container *)
rating_of(container) ==
  LET rate_text == IF container.has_widget
                   THEN (IF container.has_label THEN container.label ELSE Unknown)
                   ELSE Unknown
      match == re_search_digits(rate_text)
  IN [Rate |-> IF match.found THEN match.group ELSE Unknown,
      Time |-> IF container.has_date THEN strip(container.date) ELSE Unknown]

(* lines 61-86 *)
time_rate_scrap(sp) ==
  IF sp.rate_raises THEN <<[Rate |-> Unknown, Time |-> Unknown]>>
  ELSE [i \in 1..Len(sp.rate_containers) |-> rating_of(sp.rate_containers[i])]

(* the empty dict {} of line 109 *)
EmptyDict == [empty |-> TRUE, reviews |-> None, content |-> <<>>, time_rate |-> <<>>]

(* mutant: a failed fetch degrades like a failed rating extraction *)
detail_scrap_unknown(resp) ==
  IF resp.fails
  THEN [empty |-> FALSE, reviews |-> Some(<<>>), content |-> <<>>,
        time_rate |-> <<[Rate |-> Unknown, Time |-> Unknown]>>]
  ELSE [empty |-> FALSE,
        reviews |-> extract_reviews(resp.soup),
        content |-> extract_content(resp.soup),
        time_rate |-> time_rate_scrap(resp.soup)]

(* lines 89-109; resp.fails: requests.get or the parser raised *)
detail_scrap(resp) ==
  IF resp.fails THEN EmptyDict
  ELSE [empty |-> FALSE,
        reviews |-> extract_reviews(resp.soup),
        content |-> extract_content(resp.soup),
        time_rate |-> time_rate_scrap(resp.soup)]

(* line 133: Python truthiness of the loop condition *)
has_data(d) ==
  /\ ~d.empty
  /\ \/ (~d.reviews.none /\ d.reviews.list # <<>>)
     \/ d.content # <<>>
     \/ d.time_rate # <<>>

(* zip() of line 139: stops at the first exhausted sequence *)
RECURSIVE zip(_, _, _)
zip(a, b, c) ==
  IF a = <<>> THEN <<>>
  ELSE IF b = <<>> THEN <<>>
  ELSE IF c = <<>> THEN <<>>
  ELSE <<<<Head(a), Head(b), Head(c)>>>> \o zip(Tail(a), Tail(b), Tail(c))

(* lines 140-148 *)
combined_record(t, name) ==
  [Store |-> t[1].Store,
   Location |-> t[1].Location,
   Span |-> t[1].Span,
   Rate |-> t[3].Rate,
   Time |-> t[3].Time,
   Review |-> t[2],
   ApplicationName |-> name]

(* mutant: the last zipped tuple is lost *)
merge_page_off_by_one(d, name) ==
  LET z == zip(d.reviews.list, d.content, d.time_rate)
  IN [i \in 1..(Len(z) - 1) |-> combined_record(z[i], name)]

(* lines 139-148: the records one page adds *)
merge_page(d, name) ==
  LET z == zip(d.reviews.list, d.content, d.time_rate)
  IN [i \in 1..Len(z) |-> combined_record(z[i], name)]

(* lines 160-161: DataFrame(combined_data).to_csv: one row per record, the *)
(* columns in the key order of the dicts                                   *)
to_csv(rows) ==
  [i \in 1..Len(rows) |->
     <<rows[i].Store, rows[i].Location, rows[i].Span, rows[i].Rate,
       rows[i].Time, rows[i].Review, rows[i].ApplicationName>>]

(* ---------------------------- page inputs ------------------------------ *)
SeqsUpTo(S, n) == UNION {[1..k -> S] : k \in 0..n}

EmptySoup ==
  [main |-> "present", titles |-> <<>>,
   content_raises |-> FALSE, content_elements |-> <<>>,
   rate_raises |-> FALSE, rate_containers |-> <<>>]

TitleA == [text |-> <<" ", "A", " ">>, siblings |-> <<<<"U", "S">>, <<"1", "y">>>>]
TitleB == [text |-> <<"B">>, siblings |-> <<<<"N", "P", "\n">>>>]
TitleC == [text |-> <<"C">>, siblings |-> <<>>]

ContentX == <<" ", "o", "k", " ">>
ContentY == <<"b", "a", "d">>

Rated4 ==
  [has_widget |-> TRUE, has_label |-> TRUE,
   label |-> <<"R", "a", "t", "e", "d", " ", "4", " ", "o", "f", " ", "5">>,
   has_date |-> TRUE, date |-> <<" ", "M", "a", "y", " ", "2", " ">>]
Rated10 ==
  [has_widget |-> TRUE, has_label |-> TRUE, label |-> <<"1", "0", "/", "5">>,
   has_date |-> FALSE, date |-> <<>>]
NoLabel ==
  [has_widget |-> TRUE, has_label |-> FALSE, label |-> <<>>,
   has_date |-> TRUE, date |-> <<"J", "u", "n">>]
NoWidget ==
  [has_widget |-> FALSE, has_label |-> FALSE, label |-> <<>>,
   has_date |-> TRUE, date |-> <<"\n", "J", "u", "l">>]

(* a page of 3 identities, 2 content blocks and 4 ratings *)
FullSoup ==
  [EmptySoup EXCEPT !.titles = <<TitleA, TitleB, TitleC>>,
                    !.content_elements = <<ContentX, ContentY>>,
                    !.rate_containers = <<Rated4, Rated10, NoLabel, NoWidget>>]

(* nothing on the page but a rating extraction that raises *)
RateRaisesSoup == [EmptySoup EXCEPT !.rate_raises = TRUE]

(* no main container and nothing else: every group is empty *)
AbsentEmptySoup == [EmptySoup EXCEPT !.main = "absent"]

(* no main container, but content and ratings *)
AbsentMainSoup ==
  [EmptySoup EXCEPT !.main = "absent",
                    !.content_elements = <<ContentX>>,
                    !.rate_containers = <<Rated4>>]

(* every extraction raises *)
AllRaiseSoup ==
  [EmptySoup EXCEPT !.main = "raises", !.content_raises = TRUE,
                    !.rate_raises = TRUE]

FetchFailure == [fails |-> TRUE, soup |-> EmptySoup]

Page(sp) == [fails |-> FALSE, soup |-> sp]

(* what a GET may bring back *)
Responses ==
  {FetchFailure} \cup
  {Page(sp) : sp \in {EmptySoup, AbsentEmptySoup, FullSoup, RateRaisesSoup,
                      AbsentMainSoup, AllRaiseSoup}}

(* every source serves a page without data at page MaxPage at the latest *)
ResponsesAt(n) ==
  IF n < MaxPage THEN Responses
  ELSE {r \in Responses : ~has_data(detail_scrap(r))}

(* ---------------------------- the driver ------------------------------- *)
FetchEvent(s, n, r) == [ev |-> "fetch", src |-> s, page |-> n, resp |-> r, rows |-> <<>>]
SleepEvent == [ev |-> "sleep", src |-> 0, page |-> 0, resp |-> FetchFailure, rows |-> <<>>]
CsvEvent(rows) == [ev |-> "to_csv", src |-> 0, page |-> 0, resp |-> FetchFailure, rows |-> rows]

(* lines 122-124 *)
Init ==
  /\ app_idx = 1
  /\ page_num = 1
  /\ pc = "fetch"
  /\ data = EmptyDict
  /\ combined_data = <<>>
  /\ trace = <<>>
  /\ soup = EmptySoup

(* lines 130-131: url = app_url + page_num; data = detail_scrap(url) *)
Fetch ==
  /\ pc = "fetch"
  /\ \E r \in ResponsesAt(page_num) :
       /\ data' = detail_scrap(r)
       /\ soup' = r.soup
       /\ trace' = Append(trace, FetchEvent(app_idx, page_num, r))
  /\ pc' = "check"
  /\ UNCHANGED <<app_idx, page_num, combined_data>>

(* mutant: the next page is fetched without the delay of line 156 *)
Process_no_sleep ==
  /\ pc = "check"
  /\ has_data(data)
  /\ IF data.reviews.none
     THEN /\ pc' = "crashed"
          /\ UNCHANGED <<page_num, combined_data>>
     ELSE /\ combined_data' =
               combined_data \o merge_page(data, app_name[app_idx])
          /\ page_num' = page_num + 1
          /\ pc' = "fetch"
  /\ UNCHANGED <<app_idx, data, trace, soup>>

(* lines 133-151: the page has data; zip(None, ..) raises TypeError, which *)
(* nothing catches                                                         *)
Process ==
  /\ pc = "check"
  /\ has_data(data)
  /\ IF data.reviews.none
     THEN /\ pc' = "crashed"
          /\ UNCHANGED <<page_num, combined_data>>
     ELSE /\ combined_data' =
               combined_data \o merge_page(data, app_name[app_idx])
          /\ page_num' = page_num + 1
          /\ pc' = "sleep"
  /\ UNCHANGED <<app_idx, data, trace, soup>>

(* lines 152-155, then the for loop of lines 123-124 takes the next source *)
Break ==
  /\ pc = "check"
  /\ ~has_data(data)
  /\ IF app_idx < NumSources
     THEN /\ app_idx' = app_idx + 1
          /\ page_num' = 1
          /\ pc' = "fetch"
     ELSE /\ pc' = "save"
          /\ UNCHANGED <<app_idx, page_num>>
  /\ UNCHANGED <<data, combined_data, trace, soup>>

(* line 156 *)
Sleep ==
  /\ pc = "sleep"
  /\ trace' = Append(trace, SleepEvent)
  /\ pc' = "fetch"
  /\ UNCHANGED <<app_idx, page_num, data, combined_data, soup>>

(* mutant: the table is written whether or not records were accumulated *)
Save_always ==
  /\ pc = "save"
  /\ trace' = Append(trace, CsvEvent(to_csv(combined_data)))
  /\ pc' = "done"
  /\ UNCHANGED <<app_idx, page_num, data, combined_data, soup>>

(* lines 159-164 *)
Save ==
  /\ pc = "save"
  /\ IF combined_data # <<>>
     THEN trace' = Append(trace, CsvEvent(to_csv(combined_data)))
     ELSE UNCHANGED trace
  /\ pc' = "done"
  /\ UNCHANGED <<app_idx, page_num, data, combined_data, soup>>

Next == Fetch \/ Process \/ Break \/ Sleep \/ Save

Spec == Init /\ [][Next]_vars

(* ------------------- rating extraction on its own ---------------------- *)
LabelChars == {"a", "4", "5"}

Labels == SeqsUpTo(LabelChars, MaxLabelLen)

Dates == {<<>>, <<" ">>, <<"J">>, <<" ", "J", " ", "9", "\n">>}

(* every shape of one rating container *)
Containers ==
  {[has_widget |-> FALSE, has_label |-> FALSE, label |-> <<>>,
    has_date |-> FALSE, date |-> <<>>]}
  \cup {[has_widget |-> w, has_label |-> FALSE, label |-> <<>>,
         has_date |-> TRUE, date |-> d] : w \in BOOLEAN, d \in Dates}
  \cup {[has_widget |-> TRUE, has_label |-> TRUE, label |-> l,
         has_date |-> FALSE, date |-> <<>>] : l \in Labels}
  \cup {[has_widget |-> TRUE, has_label |-> TRUE, label |-> l,
         has_date |-> TRUE, date |-> d] : l \in Labels, d \in Dates}

(* pages of one container of any shape, and pages of several containers *)
RateSoups ==
  {[EmptySoup EXCEPT !.rate_containers = <<c>>] : c \in Containers}
  \cup {[EmptySoup EXCEPT !.rate_containers = cs] :
          cs \in SeqsUpTo({Rated4, Rated10, NoLabel, NoWidget}, MaxContainers)}

InitRate ==
  /\ app_idx = 1
  /\ page_num = 1
  /\ pc = "rate_input"
  /\ data = EmptyDict
  /\ combined_data = <<>>
  /\ trace = <<>>
  /\ soup \in RateSoups

(* line 100: extracted_time_rate = time_rate_scrap(soup) *)
RateScrap ==
  /\ pc = "rate_input"
  /\ data' = [EmptyDict EXCEPT !.empty = FALSE, !.time_rate = time_rate_scrap(soup)]
  /\ pc' = "rate_output"
  /\ UNCHANGED <<app_idx, page_num, combined_data, trace, soup>>

NextRate == RateScrap

SpecRate == InitRate /\ [][NextRate]_vars

(* ============================ properties =============================== *)
IsPrefix(a, b) == Len(a) <= Len(b) /\ SubSeq(b, 1, Len(a)) = a

FetchIdx == {i \in 1..Len(trace) : trace[i].ev = "fetch"}

(* the three field groups the page of fetch event i yielded *)
EvData(i) == detail_scrap(trace[i].resp)

(* a terminating page: none of the three groups holds an element *)
AllEmpty(d) == d.reviews.list = <<>> /\ d.content = <<>> /\ d.time_rate = <<>>

(* the driver has acted on the page of fetch event i *)
Handled(i) == i < Len(trace) \/ pc # "check"

(* after the page of fetch event i: counter incremented and the delay or the *)
(* fetch of the next page under way                                          *)
NextPageUnderWay(i) ==
  IF i = Len(trace)
  THEN pc = "sleep" /\ app_idx = trace[i].src /\ page_num = trace[i].page + 1
  ELSE /\ trace[i + 1].ev = "sleep"
       /\ i + 1 = Len(trace) =>
            (pc = "fetch" /\ app_idx = trace[i].src /\ page_num = trace[i].page + 1)
       /\ i + 1 < Len(trace) =>
            (trace[i + 2].ev = "fetch" /\ trace[i + 2].src = trace[i].src
             /\ trace[i + 2].page = trace[i].page + 1)

(* after the page of fetch event i: the source is over, the next source at *)
(* page 1 or the final step comes next, with no event in between           *)
SourceEnded(i) ==
  IF i = Len(trace)
  THEN \/ trace[i].src < NumSources /\ pc = "fetch"
          /\ app_idx = trace[i].src + 1 /\ page_num = 1
       \/ trace[i].src = NumSources /\ pc \in {"save", "done"}
  ELSE \/ trace[i + 1].ev = "fetch" /\ trace[i + 1].src = trace[i].src + 1
          /\ trace[i + 1].page = 1
       \/ trace[i + 1].ev = "to_csv" /\ trace[i].src = NumSources

(* the application names the slugs stand for *)
ExpectedName == <<
  <<"G","o","o","g","l","e"," ","C","u","s","t","o","m","e","r"," ",
    "R","e","v","i","e","w","s"," ","1">>,
  <<"S","o","c","i","a","l"," ","T","e","s","t","i","m","o","n","i","a","l"," ",
    "S","l","i","d","e","r">>,
  <<"R","e","p","u","t","o","n"," ","T","e","s","t","i","m","o","n","i","a","l","s">>,
  <<"P","r","o","d","u","c","t"," ","R","e","v","i","e","w","s"," ","B","y"," ",
    "A","p","p","i","o">>,
  <<"R","e","v","i","e">> >>

(* the records a page with groups d of source s is to add: as many as the *)
(* shortest group holds, the i-th made of the i-th element of each        *)
ExpectedRecords(d, s) ==
  LET k == Min(Len(d.reviews.list), Min(Len(d.content), Len(d.time_rate)))
  IN [i \in 1..k |->
        [Store |-> d.reviews.list[i].Store,
         Location |-> d.reviews.list[i].Location,
         Span |-> d.reviews.list[i].Span,
         Rate |-> d.time_rate[i].Rate,
         Time |-> d.time_rate[i].Time,
         Review |-> d.content[i],
         ApplicationName |-> ExpectedName[s]]]

RECURSIVE ExpectedAccumulator(_)
ExpectedAccumulator(n) ==
  IF n = 0 THEN <<>>
  ELSE ExpectedAccumulator(n - 1) \o
       (IF trace[n].ev = "fetch" /\ Handled(n)
        THEN ExpectedRecords(EvData(n), trace[n].src)
        ELSE <<>>)

(* C1: pagination of a source stops exactly at its first page without data: *)
(* every handled page with data is followed by the fetch of the next page,  *)
(* and a handled page without data is the last page fetched of its source.  *)
C1_StopsExactlyAtFirstEmptyPage ==
  \A i \in FetchIdx :
    Handled(i) =>
      IF AllEmpty(EvData(i)) THEN SourceEnded(i) ELSE NextPageUnderWay(i)

(* C2: handling a page with data appends exactly min(len) records, the i-th *)
(* made of the i-th identity, content text and rating of the page.          *)
C2_MergeTruncatesToShortest ==
  [][(pc = "check" /\ ~AllEmpty(data))
       => combined_data' = combined_data \o ExpectedRecords(data, app_idx)]_vars

C2_Witness ==
  /\ pc = "sleep"
  /\ trace[Len(trace)].resp = Page(FullSoup)
  /\ Len(combined_data) = 2
  /\ combined_data[2].Rate = <<"1", "0">>

(* C3: a page without main container (or whose identity extraction raised)  *)
(* and with content or ratings adds no record and the driver goes on to the *)
(* next page.                                                               *)
C3_MissingContainerNeverAborts ==
  \A i \in FetchIdx :
    LET r == trace[i].resp IN
    (Handled(i) /\ ~r.fails /\ r.soup.main \in {"absent", "raises"}
       /\ (EvData(i).content # <<>> \/ EvData(i).time_rate # <<>>))
      => (pc # "crashed" /\ NextPageUnderWay(i))

(* C4: a failed fetch ends the current source at that page, leaves the      *)
(* accumulator alone and leads to page 1 of the next source or to the final *)
(* step, as a page without data does.                                       *)
C4_FetchFailureEndsSource ==
  [][(pc = "check" /\ trace[Len(trace)].resp.fails)
       => /\ combined_data' = combined_data
          /\ trace' = trace
          /\ IF app_idx < NumSources
             THEN app_idx' = app_idx + 1 /\ page_num' = 1 /\ pc' = "fetch"
             ELSE app_idx' = app_idx /\ pc' = "save"]_vars

C4_Witness ==
  /\ pc = "fetch"
  /\ app_idx = 2
  /\ page_num = 1
  /\ trace[Len(trace)].resp.fails
  /\ trace[Len(trace)].page = 2
  /\ combined_data # <<>>

(* C5: the accumulator is the concatenation, over the handled pages in the  *)
(* order fetched (sources in configured order, pages from 1 upwards), of    *)
(* their zipped records tagged with their source's name; it only grows at   *)
(* its end.                                                                 *)
C5_AccumulatorIsConcatenation ==
  /\ [](/\ combined_data = ExpectedAccumulator(Len(trace))
        /\ \A i, j \in FetchIdx :
             i < j => \/ trace[i].src < trace[j].src
                      \/ trace[i].src = trace[j].src /\ trace[i].page < trace[j].page
        /\ \A j \in FetchIdx :
             trace[j].page = 1 \/
             \E i \in FetchIdx : i < j /\ trace[i].src = trace[j].src
                                 /\ trace[i].page = trace[j].page - 1)
  /\ [][IsPrefix(combined_data, combined_data')]_vars

C5_Witness ==
  /\ pc = "done"
  /\ Len(combined_data) = 6
  /\ combined_data[1].ApplicationName = ExpectedName[1]
  /\ combined_data[5].ApplicationName = ExpectedName[2]
  /\ combined_data[1].Store = <<"A">>

(* C6: the table is written at most once, as the last thing of the run,     *)
(* after every source has served a page without data, with one row per      *)
(* accumulated record; it is written exactly when records were accumulated. *)
C6_TableWrittenOnceAtEnd ==
  /\ \A i \in 1..Len(trace) :
       trace[i].ev = "to_csv" =>
         /\ i = Len(trace)
         /\ pc = "done"
         /\ combined_data # <<>>
         /\ Len(trace[i].rows) = Len(combined_data)
         /\ \A k \in 1..Len(combined_data) :
              trace[i].rows[k] =
                <<combined_data[k].Store, combined_data[k].Location,
                  combined_data[k].Span, combined_data[k].Rate,
                  combined_data[k].Time, combined_data[k].Review,
                  combined_data[k].ApplicationName>>
         /\ \A s \in Sources :
              \E j \in FetchIdx : trace[j].src = s /\ AllEmpty(EvData(j))
  /\ pc = "done" =>
       (combined_data # <<>> <=> trace[Len(trace)].ev = "to_csv")

C6_Witness ==
  /\ pc = "done"
  /\ trace[Len(trace)].ev = "to_csv"
  /\ Len(trace[Len(trace)].rows) = 4

(* C7: every source serving a page without data in the end, the run goes on *)
(* until the final serialize-or-log step: it stops nowhere else.            *)
C7_RunStopsOnlyAtFinalStep == pc = "done" \/ ENABLED Next

(* C8: each rating container yields one record, in document order; Rate is  *)
(* the first maximal run of digits of the widget's label, "Unknown" without *)
(* widget, label or digit; Time is the trimmed date text, "Unknown" without *)
(* date node.                                                               *)
FirstDigitRun(l) ==
  LET a == CHOOSE i \in 1..Len(l) :
             l[i] \in Digits /\ \A j \in 1..(i - 1) : l[j] \notin Digits
      b == CHOOSE i \in a..Len(l) :
             /\ \A j \in a..i : l[j] \in Digits
             /\ (i = Len(l) \/ l[i + 1] \notin Digits)
  IN SubSeq(l, a, b)

Trimmed(t) ==
  IF \A i \in 1..Len(t) : t[i] \in Whitespace THEN <<>>
  ELSE LET a == CHOOSE i \in 1..Len(t) :
                  t[i] \notin Whitespace /\ \A j \in 1..(i - 1) : t[j] \in Whitespace
           b == CHOOSE i \in 1..Len(t) :
                  t[i] \notin Whitespace /\ \A j \in (i + 1)..Len(t) : t[j] \in Whitespace
       IN SubSeq(t, a, b)

C8_RateIsFirstDigitRun ==
  (pc = "rate_output" /\ ~soup.rate_raises) =>
    /\ Len(data.time_rate) = Len(soup.rate_containers)
    /\ \A i \in 1..Len(soup.rate_containers) :
         LET c == soup.rate_containers[i] IN
         /\ data.time_rate[i].Rate =
              (IF c.has_widget /\ c.has_label
                  /\ \E k \in 1..Len(c.label) : c.label[k] \in Digits
               THEN FirstDigitRun(c.label)
               ELSE Unknown)
         /\ data.time_rate[i].Time =
              (IF c.has_date THEN Trimmed(c.date) ELSE Unknown)

C8_Witness ==
  /\ pc = "rate_output"
  /\ Len(soup.rate_containers) = 1
  /\ soup.rate_containers[1].label = <<"5", "a", "4">>
  /\ soup.rate_containers[1].date = <<" ", "J", " ", "9", "\n">>
  /\ data.time_rate[1] = [Rate |-> <<"5">>, Time |-> <<"J", " ", "9">>]

(* C9: the fetch of page n+1 of a source comes right after one delay, which *)
(* comes right after the fetch of page n, once the counter is incremented;  *)
(* no delay follows a page without data, so the first fetch of the next     *)
(* source and the final write follow such a page directly.                  *)
C9_OneDelayBetweenPages ==
  /\ \A i \in 1..Len(trace) :
       /\ (trace[i].ev = "fetch" /\ trace[i].page > 1) =>
            /\ i >= 3
            /\ trace[i - 1].ev = "sleep"
            /\ trace[i - 2].ev = "fetch"
            /\ trace[i - 2].src = trace[i].src
            /\ trace[i - 2].page = trace[i].page - 1
       /\ trace[i].ev = "sleep" =>
            /\ i >= 2
            /\ trace[i - 1].ev = "fetch"
            /\ ~AllEmpty(EvData(i - 1))
            /\ i = Len(trace) => page_num = trace[i - 1].page + 1
       /\ (trace[i].ev = "fetch" /\ trace[i].page = 1 /\ i > 1) =>
            (trace[i - 1].ev = "fetch" /\ AllEmpty(EvData(i - 1)))
       /\ trace[i].ev = "to_csv" =>
            (trace[i - 1].ev = "fetch" /\ AllEmpty(EvData(i - 1)))
  /\ pc = "sleep" => page_num = trace[Len(trace)].page + 1
  /\ pc \in {"save", "done"} =>
       \E i \in FetchIdx :
         /\ AllEmpty(EvData(i))
         /\ \A j \in (i + 1)..Len(trace) : trace[j].ev = "to_csv"

C9_Witness ==
  /\ Len(trace) = 4
  /\ trace[1].ev = "fetch" /\ trace[2].ev = "sleep"
  /\ trace[3].ev = "fetch" /\ trace[3].page = 2
  /\ trace[4].ev = "fetch" /\ trace[4].src = 2 /\ trace[4].page = 1

(* C10: a page whose rating extraction raised is never a terminating page:  *)
(* the driver goes on to the next page, the page adding at most one record. *)
C10_RatingFailureContinues ==
  \A i \in FetchIdx :
    (Handled(i) /\ ~trace[i].resp.fails /\ trace[i].resp.soup.rate_raises)
      => /\ EvData(i).time_rate = <<[Rate |-> Unknown, Time |-> Unknown]>>
         /\ NextPageUnderWay(i)
====
